---- MODULE Spec2Model ----
(***************************************************************************)
(* A model of gamegirl: the versioned narrative memory store               *)
(* (memory.py, MemoryManager) and the game controller that drives it       *)
(* (gamegirl.py, GenerativeStoryGame).                                     *)
(*                                                                         *)
(* Python values are records, one shape per kind of value:                 *)
(*   [none |-> TRUE]          None                                         *)
(*   [str |-> s]              a str                                        *)
(*   [int |-> i]              an int                                       *)
(*   [ref |-> r]              a list object, the r-th object of the heap   *)
(*   [emoji, name, choice, choice_type]   a base.Choice                    *)
(*   [actions, plot, ...]     the dict written under "story_memory"        *)
(* Lists are the only values the program mutates in place, so they live in *)
(* a heap and the store holds references to them: two places of the store  *)
(* that hold the same list object hold the same reference.                 *)
(*                                                                         *)
(* Three specifications:                                                   *)
(*   SpecStore  a MemoryManager alone, driven by arbitrary calls           *)
(*   SpecDir    the naming of a new save file, over any directory          *)
(*   Spec       the game: processes started one after the other over one   *)
(*              working directory, each reading lines from the console     *)
(***************************************************************************)
EXTENDS Integers, Sequences, FiniteSets, TLC

VARIABLES
    memory,            \* MemoryManager.memory: key -> value, DOMAIN = keys present
    history,           \* MemoryManager.history: sequence of (version, key, value, timestamp)
    version,           \* MemoryManager.version
    heap,              \* the list objects of the running process, by reference
    now,               \* the wall clock read by datetime.now()
    files,             \* the working directory: save file number -> blob or NoFile
    default_filename,  \* GenerativeStoryGame.default_filename
    filename,          \* the argument of play(): NoName (None) or a file name
    pc,                \* where the process is: "play", or the prompt it waits at
    status,            \* "running", "exited" (exit()) or "crashed" (unhandled exception)
    option_type,       \* choose_option's option_type while it waits at its prompt
    options,           \* choose_option's local options
    context,           \* the context of the latest generate_initial_options request
    turn,              \* play()'s local turn
    choices,           \* play()'s local choices
    chosen_action,     \* play()'s local chosen_action
    inp,               \* the line most recently read from the console
    runs,              \* how many processes have been started
    iterations,        \* how many times this process reached the top of the loop
    nresolved,         \* how many consequences this process has processed
    lines,             \* how many lines have been read from the console, all processes
    ncalls,            \* SpecStore: how many mutating calls were made
    lastop,            \* SpecStore: the latest call
    result             \* SpecStore: what the latest read returned

store_vars == <<memory, history, version>>
game_vars == <<heap, files, default_filename, filename, pc, status, option_type,
               options, context, turn, choices, chosen_action, inp, runs,
               iterations, nresolved, lines>>
harness_vars == <<ncalls, lastop, result>>
vars == <<memory, history, version, now, heap, files, default_filename, filename,
          pc, status, option_type, options, context, turn, choices, chosen_action,
          inp, runs, iterations, nresolved, lines, ncalls, lastop, result>>

(***************************************************************************)
(* Bounds                                                                  *)
(***************************************************************************)
\* SpecStore: mutating calls made on the store
MaxCalls == 3
\* the clock's last tick
MaxClock == 2
\* Spec: processes started
MaxRuns == 2
\* Spec: lines typed at the console, over all processes
MaxLines == 8
\* Spec: save file numbers story_1.gsg .. story_<MaxFileNo>.gsg
MaxFileNo == 2
\* SpecDir: save file numbers of the directory listings drawn
MaxDirNo == 4

(***************************************************************************)
(* Values                                                                  *)
(***************************************************************************)
None == [none |-> TRUE]
StrV(s) == [str |-> s]
IntV(i) == [int |-> i]
Ref(r) == [ref |-> r]
IsRef(v) == DOMAIN v = {"ref"}
IsInt(v) == DOMAIN v = {"int"}

\* The store as one value: what write and update take and give back.
TheStore == [memory |-> memory, history |-> history, version |-> version]

(***************************************************************************)
(* memory.py: MemoryManager                                                *)
(***************************************************************************)
\* __init__
NewStore == [memory |-> << >>, history |-> << >>, version |-> 0]

\* A read by subscript: self.memory[key]
ReadStrict(s, key) ==
    IF key \in DOMAIN s.memory THEN s.memory[key] ELSE [raised |-> "KeyError"]

\* read: self.memory.get(key, None)
Read(s, key) == IF key \in DOMAIN s.memory THEN s.memory[key] ELSE None

\* self.memory[key] = value
SetItem(m, key, value) ==
    [k \in DOMAIN m \cup {key} |-> IF k = key THEN value ELSE m[k]]

\* A write that forgets the history record.
WriteNoHistory(s, key, value, timestamp) ==
    [memory |-> SetItem(s.memory, key, value),
     history |-> s.history,
     version |-> s.version + 1]

\* write: bump the version, stamp, set, append the record
Write(s, key, value, timestamp) ==
    LET v == s.version + 1
    IN  [memory |-> SetItem(s.memory, key, value),
         history |-> Append(s.history,
                            [version |-> v, key |-> key, value |-> value,
                             timestamp |-> timestamp]),
         version |-> v]

\* An update that skips the record when the value is the one already stored.
UpdateDedup(s, key, value, timestamp) ==
    IF key \in DOMAIN s.memory /\ s.memory[key] = value
    THEN s
    ELSE Write(s, key, value, timestamp)

\* update: the same four statements when the key is present, else write
Update(s, key, value, timestamp) ==
    IF key \in DOMAIN s.memory
    THEN LET v == s.version + 1
         IN  [memory |-> SetItem(s.memory, key, value),
              history |-> Append(s.history,
                                 [version |-> v, key |-> key, value |-> value,
                                  timestamp |-> timestamp]),
              version |-> v]
    ELSE Write(s, key, value, timestamp)

\* get_latest_version, get_history
GetLatestVersion(s) == s.version
GetHistory(s) == s.history

SetStore(s) ==
    /\ memory' = s.memory
    /\ history' = s.history
    /\ version' = s.version

(***************************************************************************)
(* SpecStore: a MemoryManager alone.  Any caller, any calls.               *)
(***************************************************************************)
StoreKeys == {"plot", "prose"}
StoreValues == {StrV("once"), StrV("twice")}

NoName == [noname |-> TRUE]
\* "story_<n>.gsg"
StoryFile(n) == [story |-> n]
NoFile == [nofile |-> TRUE]

\* store = MemoryManager(); no game runs
InitStore ==
    /\ memory = NewStore.memory
    /\ history = NewStore.history
    /\ version = NewStore.version
    /\ now = 0
    /\ ncalls = 0
    /\ lastop = [op |-> "init"]
    /\ result = None
    /\ heap = << >>
    /\ files = [f \in 1..MaxFileNo |-> NoFile]
    /\ default_filename = NoName
    /\ filename = NoName
    /\ pc = "store"
    /\ status = "running"
    /\ option_type = ""
    /\ options = << >>
    /\ context = ""
    /\ turn = 0
    /\ choices = << >>
    /\ chosen_action = ""
    /\ inp = ""
    /\ runs = 0
    /\ iterations = 0
    /\ nresolved = 0
    /\ lines = 0

\* store.write(key, value)
StoreWrite(key, value) ==
    /\ ncalls < MaxCalls
    /\ SetStore(Write(TheStore, key, value, now))
    /\ ncalls' = ncalls + 1
    /\ lastop' = [op |-> "write", key |-> key, value |-> value]
    /\ UNCHANGED <<now, result, game_vars>>

\* store.update(key, value)
StoreUpdate(key, value) ==
    /\ ncalls < MaxCalls
    /\ SetStore(Update(TheStore, key, value, now))
    /\ ncalls' = ncalls + 1
    /\ lastop' = [op |-> "update", key |-> key, value |-> value]
    /\ UNCHANGED <<now, result, game_vars>>

\* result = store.read(key)
StoreRead(key) ==
    /\ result' = Read(TheStore, key)
    /\ lastop' = [op |-> "read", key |-> key]
    /\ UNCHANGED <<store_vars, now, ncalls, game_vars>>

\* Time passes between two calls.
Tick ==
    /\ now < MaxClock
    /\ now' = now + 1
    /\ UNCHANGED <<store_vars, ncalls, lastop, result, game_vars>>

NextStore ==
    \/ \E key \in StoreKeys, value \in StoreValues : StoreWrite(key, value)
    \/ \E key \in StoreKeys, value \in StoreValues : StoreUpdate(key, value)
    \/ \E key \in StoreKeys : StoreRead(key)
    \/ Tick

SpecStore == InitStore /\ [][NextStore]_vars

(***************************************************************************)
(* base.py and the generation collaborator                                 *)
(***************************************************************************)
ChoiceFields == {"emoji", "name", "choice", "choice_type"}
ValidationError == [raised |-> "ValidationError"]

\* Choice(**kw): the four fields are declared without defaults, so pydantic
\* raises ValidationError when one is not given.
NewChoice(kw) == IF DOMAIN kw = ChoiceFields THEN kw ELSE ValidationError

OptionTypes == <<"character", "setting", "motivation">>
OptionTexts ==
    [character  |-> <<"a cartographer", "a smuggler", "an archivist">>,
     setting    |-> <<"a drowned city", "a salt desert", "a night train">>,
     motivation |-> <<"to pay a debt", "to find a sister", "to be forgotten">>]

\* generate_initial_options: the collaborator's Choices, parsed and dumped, so
\* every entry carries the four fields.  Three entries, as the prompt asks.
GenerateInitialOptions(ctx, option) ==
    [i \in 1..3 |-> [emoji |-> "*", name |-> option, choice |-> OptionTexts[option][i],
                     choice_type |-> option]]

ChoiceTexts ==
    << <<"open the door", "wait for dawn", "turn back">>,
       <<"follow the tracks", "light a fire", "call out">> >>

\* generate_choices().get("choices", []): three entries, new ones each request.
GenerateChoices(t) ==
    [i \in 1..3 |-> [emoji |-> "*", name |-> "move", choice |-> ChoiceTexts[(t % 2) + 1][i],
                     choice_type |-> "action"]]

\* simulate_consequence: a Consequence record.  The collaborator answers from
\* the story so far; here the outcome alternates with the length of the log.
SimulateConsequence(choice, sofar) ==
    IF sofar % 2 = 0
    THEN {[choice |-> choice, consequence |-> "it works", plot |-> "plot: ahead",
           prose |-> "prose: they went on"]}
    ELSE {[choice |-> choice, consequence |-> "it fails", plot |-> "plot: stuck",
           prose |-> "prose: they stayed"]}

\* handle_player_question: the Answer's text
HandlePlayerQuestion(question) == "nobody knows"

(***************************************************************************)
(* gamegirl.py: GenerativeStoryGame                                        *)
(***************************************************************************)
data_vars == <<memory, history, version, heap, files>>
loc_vars == <<pc, status>>
loop_vars == <<turn, iterations, choices>>
act_vars == <<chosen_action, nresolved>>
setup_vars == <<option_type, options, context>>
proc_vars == <<default_filename, filename, runs, now>>

\* The dict __init__ writes under "story_memory".  No code path reads a
\* field of it, so its two lists are written as the empty lists they stay.
StoryMemory ==
    [actions |-> << >>, plot |-> "", user_questions |-> << >>, character |-> "",
     motivation |-> "", setting |-> "", prose |-> ""]

\* A constructor that leaves the new store as it is.
GameInitEmpty(timestamp) == NewStore

\* __init__: a new MemoryManager, then one write
GameInit(timestamp) == Write(NewStore, "story_memory", StoryMemory, timestamp)

\* str(self.memory_manager.memory)
StrOf(m) == [repr |-> m]

\* A dump that leaves the history out.
PickleDumpNoHistory(s, objs) ==
    [memory |-> s.memory, history |-> << >>, version |-> s.version, objs |-> objs]

\* save_story_memory: pickle.dump of the three fields.  Pickle writes the
\* objects by value, shared objects once: the blob holds a copy of the list
\* objects and the references into that copy.
PickleDump(s, objs) ==
    [memory |-> s.memory, history |-> s.history, version |-> s.version, objs |-> objs]

\* A load that forgets the third assignment.
PickleLoadStaleVersion(blob, old) ==
    [memory |-> blob.memory, history |-> blob.history, version |-> old.version]

\* load_story_memory: the three assignments from the unpickled blob, in
\* their order, over the store `old` the game had.  data[...] raises
\* KeyError for a field the blob lacks, and the assignments made before it
\* stay made.
PickleLoad(blob, old) ==
    [memory  |-> IF "memory" \in DOMAIN blob THEN blob.memory ELSE old.memory,
     history |-> IF {"memory", "history"} \subseteq DOMAIN blob
                 THEN blob.history ELSE old.history,
     version |-> IF {"memory", "history", "version"} \subseteq DOMAIN blob
                 THEN blob.version ELSE old.version]

\* load_story_memory ends with a KeyError
LoadRaises(blob) == ~({"memory", "history", "version"} \subseteq DOMAIN blob)

\* get_next_story_number
ExistingFiles(dir) == {f \in DOMAIN dir : dir[f] # NoFile}
\* A numbering that takes the first number not in use.
GetFirstFreeNumber(dir) ==
    CHOOSE n \in 1..(Cardinality(DOMAIN dir) + 1) :
        /\ n \notin ExistingFiles(dir)
        /\ \A m \in 1..(n - 1) : m \in ExistingFiles(dir)

GetNextStoryNumber(dir) ==
    IF ExistingFiles(dir) = {}
    THEN 1
    ELSE (CHOOSE f \in ExistingFiles(dir) : \A g \in ExistingFiles(dir) : g <= f) + 1

\* str.lower() on the lines the model types
Lower(x) == IF x = "Q" THEN "q" ELSE x

\* get_user_input: user_input.lower() == 'q'
Quits(x) == Lower(x) = "q"

\* An exit that saves the store on the way out.
ExitSaving ==
    /\ status' = "exited"
    /\ files' = [files EXCEPT ![default_filename.story] = PickleDump(TheStore, heap)]
    /\ UNCHANGED <<store_vars, heap, pc, loop_vars, act_vars, setup_vars, proc_vars>>

\* get_user_input: print the farewell, exit()
Exit ==
    /\ status' = "exited"
    /\ UNCHANGED <<data_vars, pc, loop_vars, act_vars, setup_vars, proc_vars>>

\* An exception nothing catches ends the process where it is raised.
Crash ==
    /\ status' = "crashed"
    /\ UNCHANGED <<data_vars, pc, loop_vars, act_vars, setup_vars, proc_vars>>

\* A loop that counts a turn only when it resolves an action.
LoopTopSameTurn(t) ==
    /\ turn' = t
    /\ iterations' = iterations + 1
    /\ choices' = GenerateChoices(t)
    /\ pc' = "choice"
    /\ status' = "running"

\* play, the top of the loop: turn += 1, new choices, the prompt
LoopTop(t) ==
    /\ turn' = t + 1
    /\ iterations' = iterations + 1
    /\ choices' = GenerateChoices(t + 1)
    /\ pc' = "choice"
    /\ status' = "running"

\* An entry numbered by the turn that follows.
LogEntryNextTurn(t, consequence) ==
    [turn_sequence |-> t + 1, choice |-> consequence.choice,
     consequence |-> consequence.consequence]

\* {"turn_sequence": turn, "choice": ..., "consequence": ...}
LogEntry(t, consequence) ==
    [turn_sequence |-> t, choice |-> consequence.choice,
     consequence |-> consequence.consequence]

\* A process_consequence that stores the turn it resolved.
ProcessConsequenceStoringTurn(t, action) ==
    \E consequence \in SimulateConsequence(action, Len(heap[Read(TheStore, "actions").ref])) :
        LET actions == Read(TheStore, "actions")
            heap1 == [heap EXCEPT ![actions.ref] = Append(@, LogEntry(t, consequence))]
            s1 == Update(TheStore, "actions", actions, now)
            s2 == Update(s1, "prose", StrV(consequence.prose), now)
            s3 == Update(s2, "plot", StrV(consequence.plot), now)
            s4 == Update(s3, "turn", IntV(t), now)
        IN  /\ IsRef(actions)
            /\ heap' = heap1
            /\ SetStore(s4)
            /\ files' = [files EXCEPT ![default_filename.story] = PickleDump(s4, heap1)]
            /\ chosen_action' = action
            /\ nresolved' = nresolved + 1

\* A process_consequence that saves before it updates the plot.
ProcessConsequenceSaveEarly(t, action) ==
    \E consequence \in SimulateConsequence(action, Len(heap[Read(TheStore, "actions").ref])) :
        LET actions == Read(TheStore, "actions")
            heap1 == [heap EXCEPT ![actions.ref] = Append(@, LogEntry(t, consequence))]
            s1 == Update(TheStore, "actions", actions, now)
            s2 == Update(s1, "prose", StrV(consequence.prose), now)
            s3 == Update(s2, "plot", StrV(consequence.plot), now)
        IN  /\ IsRef(actions)
            /\ heap' = heap1
            /\ SetStore(s3)
            /\ files' = [files EXCEPT ![default_filename.story] = PickleDump(s2, heap1)]
            /\ chosen_action' = action
            /\ nresolved' = nresolved + 1

\* process_consequence.  read("actions") gives the list object itself, and
\* append changes that object before update stores it again.
ProcessConsequence(t, action) ==
    \E consequence \in SimulateConsequence(action, Len(heap[Read(TheStore, "actions").ref])) :
        LET actions == Read(TheStore, "actions")
            heap1 == [heap EXCEPT ![actions.ref] = Append(@, LogEntry(t, consequence))]
            s1 == Update(TheStore, "actions", actions, now)
            s2 == Update(s1, "prose", StrV(consequence.prose), now)
            s3 == Update(s2, "plot", StrV(consequence.plot), now)
        IN  /\ IsRef(actions)
            /\ heap' = heap1
            /\ SetStore(s3)
            /\ files' = [files EXCEPT ![default_filename.story] = PickleDump(s3, heap1)]
            /\ chosen_action' = action
            /\ nresolved' = nresolved + 1

(***************************************************************************)
(* The lines a player types at each prompt                                 *)
(***************************************************************************)
\* At the three SETUP prompts: each pick is typed at one of them at least, free
\* text and q at all of them.
SetupInputs ==
    [character  |-> {"1", "3", "q", "a lighthouse keeper"},
     setting    |-> {"2", "q", "a lighthouse keeper"},
     motivation |-> {"3", "q", "Q", "a lighthouse keeper"}]
\* At the turn prompt, after "h", at the custom action prompt, in the question loop
ChoiceInputs == {"1", "2", "3", "4", "h", "f", "m", "", "q", "Q", "who am i?"}
HelpInputs == {"q", "f"}
CustomInputs == {"q", "jump"}
QuestionInputs == {"c", "q", "who am i?"}
\* An index taken one too far, wrapping at the end of the list.
DigitOneOff == [one \in {"1", "2", "3"} |-> CASE one = "1" -> 2 [] one = "2" -> 3 [] one = "3" -> 1]

\* int(choice) on "1", "2", "3"
Digit == [one \in {"1", "2", "3"} |-> CASE one = "1" -> 1 [] one = "2" -> 2 [] one = "3" -> 3]

(***************************************************************************)
(* SpecDir: the start of play() over any directory.  The directory holds   *)
(* any of story_1.gsg .. story_<MaxDirNo>.gsg, each a save of a game or a  *)
(* pickle that lacks one of the three fields.  Games are started one after *)
(* the other, fresh or on one of the files; a running game may save under  *)
(* its file name, and between two games the player may remove a file.      *)
(***************************************************************************)
\* What a file may hold: the save of a store with a "turn", and that pickle
\* less one field.
DirBlobs ==
    LET saved == PickleDump(Write(GameInit(0), "turn", IntV(0), 0), << >>)
    IN  {saved} \cup {[k \in DOMAIN saved \ {field} |-> saved[k]] :
                          field \in {"memory", "history", "version"}}

InitDir ==
    /\ files \in [1..MaxDirNo -> {NoFile} \cup DirBlobs]
    /\ default_filename = NoName
    /\ memory = GameInit(0).memory
    /\ history = GameInit(0).history
    /\ version = GameInit(0).version
    /\ now = 0
    /\ ncalls = 0
    /\ lastop = [op |-> "init"]
    /\ result = None
    /\ heap = << >>
    /\ filename = NoName
    /\ pc = "play"
    /\ status = "running"
    /\ option_type = ""
    /\ options = << >>
    /\ context = ""
    /\ turn = 0
    /\ choices = << >>
    /\ chosen_action = ""
    /\ inp = ""
    /\ runs = 1
    /\ iterations = 0
    /\ nresolved = 0
    /\ lines = 0

dir_frame == <<now, pc, option_type, options, context, turn, choices, chosen_action,
               inp, runs, iterations, nresolved, lines, harness_vars>>

\* A new game, and play() with no filename, line 265
DirName ==
    /\ SetStore(GameInit(0))
    /\ heap' = << >>
    /\ filename' = NoName
    /\ default_filename' = StoryFile(GetNextStoryNumber(files))
    /\ status' = "running"
    /\ UNCHANGED <<files, dir_frame>>

\* A new game, and play(filename) to the end of load_story_memory.  open()
\* raises when the file is not there.
DirLoad(f) ==
    /\ filename' = StoryFile(f)
    /\ default_filename' = StoryFile(f)
    /\ IF files[f] = NoFile
       THEN /\ SetStore(GameInit(0))
            /\ heap' = << >>
            /\ status' = "crashed"
       ELSE /\ SetStore(PickleLoad(files[f], GameInit(0)))
            /\ heap' = files[f].objs
            /\ status' = IF LoadRaises(files[f]) THEN "crashed" ELSE "running"
    /\ UNCHANGED <<files, dir_frame>>

\* save_story_memory(self.default_filename)
DirSave ==
    /\ status = "running"
    /\ default_filename # NoName
    /\ default_filename.story \in DOMAIN files
    /\ files' = [files EXCEPT ![default_filename.story] = PickleDump(TheStore, heap)]
    /\ UNCHANGED <<store_vars, heap, default_filename, filename, status, dir_frame>>

\* The player removes a save file; os.listdir() no longer lists it.
DirRemove(f) ==
    /\ files[f] # NoFile
    /\ files' = [files EXCEPT ![f] = NoFile]
    /\ UNCHANGED <<store_vars, heap, default_filename, filename, status, dir_frame>>

NextDir ==
    \/ DirName
    \/ \E f \in 1..MaxDirNo : DirLoad(f)
    \/ DirSave
    \/ \E f \in 1..MaxDirNo : DirRemove(f)

SpecDir == InitDir /\ [][NextDir]_vars


(***************************************************************************)
(* Spec: the game                                                          *)
(***************************************************************************)
\* game = GenerativeStoryGame(), in an empty working directory; no call is
\* made on the store from outside the game
Init ==
    /\ now = 0
    /\ memory = GameInit(now).memory
    /\ history = GameInit(now).history
    /\ version = GameInit(now).version
    /\ heap = << >>
    /\ files = [f \in 1..MaxFileNo |-> NoFile]
    /\ default_filename = NoName
    /\ filename = NoName
    /\ pc = "play"
    /\ status = "running"
    /\ option_type = ""
    /\ options = << >>
    /\ context = ""
    /\ turn = 0
    /\ choices = << >>
    /\ chosen_action = ""
    /\ inp = ""
    /\ runs = 1
    /\ iterations = 0
    /\ nresolved = 0
    /\ lines = 0
    /\ ncalls = 0
    /\ lastop = [op |-> "init"]
    /\ result = None

\* The program is run again after a process has ended: a new game object.
NewProcess ==
    /\ status \in {"exited", "crashed"}
    /\ runs < MaxRuns
    /\ runs' = runs + 1
    /\ now' = now + 1
    /\ SetStore(GameInit(now + 1))
    /\ heap' = << >>
    /\ default_filename' = NoName
    /\ filename' = NoName
    /\ pc' = "play"
    /\ status' = "running"
    /\ option_type' = ""
    /\ options' = << >>
    /\ context' = ""
    /\ turn' = 0
    /\ choices' = << >>
    /\ chosen_action' = ""
    /\ inp' = ""
    /\ iterations' = 0
    /\ nresolved' = 0
    /\ UNCHANGED <<files, lines, harness_vars>>

\* play(None) up to the first prompt: the next free file name, the welcome,
\* choose_option("", "character") up to its get_user_input
PlayFresh ==
    /\ status = "running"
    /\ pc = "play"
    /\ GetNextStoryNumber(files) <= MaxFileNo
    /\ filename' = NoName
    /\ default_filename' = StoryFile(GetNextStoryNumber(files))
    /\ option_type' = "character"
    /\ context' = StrOf("")
    /\ options' = GenerateInitialOptions(StrOf(""), "character")
    /\ pc' = "choose_option"
    /\ UNCHANGED <<data_vars, status, loop_vars, act_vars, runs, now, inp, lines, harness_vars>>

\* play(filename) up to the first prompt: load, turn = read("turn"), the
\* top of the loop.  open() raises when the file is not there, and turn += 1
\* raises when the file holds no "turn" (read gives None).
PlayResume(name) ==
    /\ status = "running"
    /\ pc = "play"
    /\ filename' = StoryFile(name)
    /\ default_filename' = StoryFile(name)
    /\ IF files[name] = NoFile
       THEN /\ status' = "crashed"
            /\ UNCHANGED <<data_vars, pc, loop_vars>>
       ELSE LET s == PickleLoad(files[name], TheStore)
            IN  /\ SetStore(s)
                /\ heap' = files[name].objs
                /\ UNCHANGED files
                /\ IF ~LoadRaises(files[name]) /\ IsInt(Read(s, "turn"))
                   THEN LoopTop(Read(s, "turn").int)
                   ELSE /\ status' = "crashed"
                        /\ UNCHANGED <<pc, loop_vars>>
    /\ UNCHANGED <<act_vars, setup_vars, runs, now, inp, lines, harness_vars>>

\* A SETUP that asks for the motivation right after the character.
NextOptionTypeSkipping(t) == IF t = "character" THEN "motivation" ELSE "setting"

\* play, lines 270-272: the option asked for after option t
NextOptionType(t) == IF t = "character" THEN "setting" ELSE "motivation"

\* choose_option from its get_user_input on, then play up to the next
\* prompt: the Choice, the write in choose_option, the write in play, and
\* either the next choose_option or the last two writes and the loop.
SetupInput(x) ==
    /\ status = "running"
    /\ pc = "choose_option"
    /\ x \in SetupInputs[option_type]
    /\ lines < MaxLines
    /\ inp' = x
    /\ lines' = lines + 1
    /\ IF Quits(x)
       THEN Exit
       ELSE LET chosen_option ==
                    IF x \in {"1", "2", "3"}
                    THEN NewChoice([emoji |-> options[Digit[x]].emoji,
                                    name |-> options[Digit[x]].name,
                                    choice |-> options[Digit[x]].choice,
                                    choice_type |-> options[Digit[x]].choice_type])
                    ELSE NewChoice([emoji |-> "", name |-> "", choice |-> x])
                s1 == Write(TheStore, option_type, chosen_option, now)
                s2 == Write(s1, option_type, chosen_option, now)
                s3 == Write(s2, "actions", Ref(Len(heap) + 1), now)
                s4 == Write(s3, "turn", IntV(0), now)
            IN  IF chosen_option = ValidationError
                THEN Crash
                ELSE IF option_type # "motivation"
                THEN /\ SetStore(s2)
                     /\ option_type' = NextOptionType(option_type)
                     /\ context' = StrOf(s2.memory)
                     /\ options' = GenerateInitialOptions(StrOf(s2.memory),
                                                          NextOptionType(option_type))
                     /\ UNCHANGED <<heap, files, loc_vars, loop_vars, act_vars, proc_vars>>
                ELSE /\ SetStore(s4)
                     /\ heap' = Append(heap, << >>)
                     /\ LoopTop(Read(s4, "turn").int)
                     /\ UNCHANGED <<files, act_vars, setup_vars, proc_vars>>
    /\ UNCHANGED harness_vars

\* process_consequence and the way back to the top of the loop.  With no
\* list under "actions", read gives None and append raises AttributeError.
Resolve(t, action) ==
    IF IsRef(Read(TheStore, "actions"))
    THEN /\ ProcessConsequence(t, action)
         /\ LoopTop(t)
         /\ UNCHANGED <<setup_vars, proc_vars>>
    ELSE Crash

\* A `continue` that saves the store on its way.
ContinueSaving ==
    /\ LoopTop(turn)
    /\ files' = [files EXCEPT ![default_filename.story] = PickleDump(TheStore, heap)]
    /\ UNCHANGED <<store_vars, heap, act_vars, setup_vars, proc_vars>>

\* `continue`: back to the top of the loop with nothing done
Continue ==
    /\ LoopTop(turn)
    /\ UNCHANGED <<data_vars, act_vars, setup_vars, proc_vars>>

\* The commands of the match statement; any other line is a question.
Commands == {"h", "f", "m", "", "1", "2", "3", "4"}

\* play, from the get_user_input of the turn prompt to the next prompt, for
\* q and the commands
ChoiceInput(x) ==
    /\ status = "running"
    /\ pc = "choice"
    /\ Quits(x) \/ x \in Commands
    /\ lines < MaxLines
    /\ inp' = x
    /\ lines' = lines + 1
    /\ IF Quits(x) THEN Exit
       ELSE IF x = "h" THEN
            /\ pc' = "help"
            /\ UNCHANGED <<data_vars, status, loop_vars, act_vars, setup_vars, proc_vars>>
       ELSE IF x \in {"f", "m", ""} THEN Continue
       ELSE IF x \in {"1", "2", "3"} THEN Resolve(turn, choices[Digit[x]].choice)
       ELSE /\ pc' = "custom"
            /\ UNCHANGED <<data_vars, status, loop_vars, act_vars, setup_vars, proc_vars>>
    /\ UNCHANGED harness_vars

\* A help prompt read by get_user_input, where q quits.
HelpInputChecked(x) ==
    /\ status = "running"
    /\ pc = "help"
    /\ lines < MaxLines
    /\ inp' = x
    /\ lines' = lines + 1
    /\ IF Quits(x) THEN Exit ELSE Continue
    /\ UNCHANGED harness_vars

\* case "h": the line read by input(), not by get_user_input, then continue
HelpInput(x) ==
    /\ status = "running"
    /\ pc = "help"
    /\ lines < MaxLines
    /\ inp' = x
    /\ lines' = lines + 1
    /\ Continue
    /\ UNCHANGED harness_vars

\* case "4": the custom action read by get_user_input, then process_consequence
CustomInput(x) ==
    /\ status = "running"
    /\ pc = "custom"
    /\ lines < MaxLines
    /\ inp' = x
    /\ lines' = lines + 1
    /\ IF Quits(x) THEN Exit ELSE Resolve(turn, x)
    /\ UNCHANGED harness_vars

\* case _: the question loop, one question per step: from the turn prompt
\* with a line that is no command, or from the loop's own prompt, where q
\* quits and c breaks out.  With no list under "user_questions", read gives
\* None and append raises AttributeError.
AskQuestion(x) ==
    /\ status = "running"
    /\ pc \in {"choice", "question"}
    /\ pc = "choice" => (~Quits(x) /\ x \notin Commands)
    /\ lines < MaxLines
    /\ inp' = x
    /\ lines' = lines + 1
    /\ IF pc = "question" /\ Quits(x) THEN Exit
       ELSE IF pc = "question" /\ x = "c" THEN Continue
       ELSE LET answer == HandlePlayerQuestion(x)
                user_questions == Read(TheStore, "user_questions")
                heap1 == [heap EXCEPT ![user_questions.ref] =
                              Append(@, [question |-> x, answer |-> answer])]
                s1 == Update(TheStore, "user_questions", user_questions, now)
            IN  IF ~IsRef(user_questions)
                THEN Crash
                ELSE /\ heap' = heap1
                     /\ SetStore(s1)
                     /\ files' = [files EXCEPT ![default_filename.story] = PickleDump(s1, heap1)]
                     /\ pc' = "question"
                     /\ UNCHANGED <<status, loop_vars, act_vars, setup_vars, proc_vars>>
    /\ UNCHANGED harness_vars

Next ==
    \/ NewProcess
    \/ PlayFresh
    \/ \E name \in 1..MaxFileNo : PlayResume(name)
    \/ \E x \in SetupInputs.character \cup SetupInputs.setting \cup SetupInputs.motivation : SetupInput(x)
    \/ \E x \in ChoiceInputs : ChoiceInput(x)
    \/ \E x \in HelpInputs : HelpInput(x)
    \/ \E x \in CustomInputs : CustomInput(x)
    \/ \E x \in ChoiceInputs \cup QuestionInputs : AskQuestion(x)

Spec == Init /\ [][Next]_vars

(***************************************************************************)
(* Values as Python compares them: a list by its elements                  *)
(***************************************************************************)
Deref(v, objs) == IF IsRef(v) THEN [list |-> objs[v.ref]] ELSE v
MemoryValues(m, objs) == [k \in DOMAIN m |-> Deref(m[k], objs)]
HistoryValues(h, objs) ==
    [i \in 1..Len(h) |-> [h[i] EXCEPT !.value = Deref(h[i].value, objs)]]
ValuesOf(s, objs) ==
    [memory |-> MemoryValues(s.memory, objs),
     history |-> HistoryValues(s.history, objs),
     version |-> s.version]

Prompts == {"choose_option", "choice", "help", "custom", "question"}
\* This step read a line at a prompt.
ReadsLine == status = "running" /\ pc \in Prompts /\ lines' = lines + 1

(***************************************************************************)
(* The store's contract (SpecStore)                                        *)
(***************************************************************************)
\* C1: after N mutating calls (write or update, any keys and values) on a
\* new store, version is N, history has N records and the i-th record
\* carries version i; so version = len(history) in every state.
C1_VersionCountsCalls ==
    /\ version = ncalls
    /\ Len(history) = ncalls
    /\ \A i \in 1..Len(history) : history[i].version = i

\* Three calls made, writes and updates mixed, on two keys.
C1_Witness ==
    /\ ncalls >= 3
    /\ lastop.op = "update"
    /\ \E i, j \in 1..Len(history) : history[i].key # history[j].key

\* C6: from every store state, for every key (present or absent) and value,
\* update gives the same entries, the same appended record and the same
\* version as write; both append exactly one record, also when the value is
\* the one already stored.
C6_UpdateIsWrite ==
    \A key \in StoreKeys, value \in StoreValues :
        LET u == Update(TheStore, key, value, now)
            w == Write(TheStore, key, value, now)
        IN  /\ u = w
            /\ u.version = version + 1
            /\ Len(u.history) = Len(history) + 1
            /\ SubSeq(u.history, 1, Len(history)) = history
            /\ u.history[Len(u.history)].key = key
            /\ u.history[Len(u.history)].value = value
            /\ u.memory[key] = value

\* An update has just stored again the value a key already had, while the
\* other key is still absent.
C6_Witness ==
    /\ lastop.op = "update"
    /\ Len(history) >= 2
    /\ history[Len(history)].key = history[Len(history) - 1].key
    /\ history[Len(history)].value = history[Len(history) - 1].value
    /\ StoreKeys \ DOMAIN memory # {}

\* The value of the latest record of `key`, None when there is none.
LastWritten(h, key) ==
    LET at == {i \in 1..Len(h) : h[i].key = key}
    IN  IF at = {} THEN None
        ELSE h[CHOOSE i \in at : \A j \in at : j <= i].value

\* C7: read never fails and never changes the store: it returns None for a
\* key never written, else the value of the latest write or update of it.
C7_ReadReturnsLatest ==
    [][/\ \A key \in StoreKeys :
             Read([memory |-> memory', history |-> history', version |-> version'], key)
                 = LastWritten(history', key)
       /\ lastop' # lastop /\ lastop'.op = "read" =>
             /\ result' = LastWritten(history, lastop'.key)
             /\ UNCHANGED store_vars]_vars

\* A read has returned the second of two values written to its key.
C7_Witness ==
    /\ lastop.op = "read"
    /\ result # None
    /\ \E i, j \in 1..Len(history) :
           /\ i < j
           /\ history[i].key = lastop.key
           /\ history[j].key = lastop.key
           /\ history[i].value # history[j].value
           /\ result = history[j].value

(***************************************************************************)
(* The game (Spec)                                                         *)
(***************************************************************************)
\* The list the store holds under "actions", by its elements.
ActionLog == heap[memory["actions"].ref]

\* C2: history is append-only and never rewritten: within a process, no
\* operation after a record was appended (a write, an update, a processed
\* consequence, a logged question) changes that record, its value included;
\* the record of the empty action list written in SETUP keeps the empty list.
C2_HistoryNeverRewritten ==
    [][(runs' = runs /\ pc # "play") =>
          /\ Len(history') >= Len(history)
          /\ \A i \in 1..Len(history) :
                 HistoryValues(history', heap')[i] = HistoryValues(history, heap)[i]]_vars

\* C3: "q" typed at any prompt (a SETUP prompt, the turn prompt, the custom
\* action prompt, the question prompt, the prompt that follows "h") ends
\* the process at once.
C3_QuitAtEveryPrompt ==
    [][(ReadsLine /\ inp' = "q") => status' = "exited"]_vars

\* What SETUP is to store for a line typed at its prompt.
SetupRecord(line, offered) ==
    IF line \in {"1", "2", "3"}
    THEN offered[Digit[line]]
    ELSE [emoji |-> "", name |-> "", choice |-> line, choice_type |-> ""]

\* C4: at each SETUP prompt, "1", "2" or "3" stores the candidate of that
\* number under the option's name and any other line but "q" stores a record
\* with that line as its "choice" and the other fields empty; SETUP then goes
\* on, and when it completes the store has version >= 3, at least 3 history
\* records, an empty action list and turn 0.
C4_SetupStoresEveryChoice ==
    [][(ReadsLine /\ pc = "choose_option" /\ inp' # "q") =>
          /\ status' = "running"
          /\ option_type \in DOMAIN memory'
          /\ memory'[option_type] = SetupRecord(inp', options)
          /\ pc' = "choice" =>
                /\ version' >= 3
                /\ Len(history') >= 3
                /\ Deref(memory'["actions"], heap') = [list |-> << >>]
                /\ memory'["turn"] = IntV(0)]_vars

\* C5: saving a store and loading the file into a new game gives back the
\* saved entries, history and version, and nothing of what the new game's
\* store held.  In every state, for the save and the load taken by themselves;
\* and at every save and every load the game makes.
C5_SaveLoadRoundTrip ==
    /\ [](LET blob == PickleDump(TheStore, heap)
              loaded == PickleLoad(blob, GameInit(now + 1))
          IN  ValuesOf(loaded, blob.objs) = ValuesOf(TheStore, heap))
    /\ [][/\ (status = "running" /\ pc # "play" /\ files' # files) =>
                 ValuesOf(files'[default_filename.story], files'[default_filename.story].objs)
                     = ValuesOf(TheStore, heap)'
          /\ (pc = "play" /\ filename' # NoName /\ status' = "running") =>
                 ValuesOf(TheStore, heap)'
                     = ValuesOf(files[filename'.story], files[filename'.story].objs)]_vars

\* A second process has loaded a file that holds a processed consequence.
C5_Witness ==
    /\ runs = 2
    /\ status = "running"
    /\ filename # NoName
    /\ pc = "choice"
    /\ iterations = 1
    /\ Len(ActionLog) >= 1
    /\ version > 1

\* C8: "q" at the turn prompt ends the process with entries, history,
\* version and the save files as they were, whatever the state of the game.
C8_QuitChangesNothing ==
    [][(ReadsLine /\ pc = "choice" /\ inp' = "q") =>
          /\ status' = "exited"
          /\ UNCHANGED <<memory, history, version, heap, files>>]_vars

\* The process has quit at the turn prompt before its first save.
C8_Witness ==
    /\ status = "exited"
    /\ pc = "choice"
    /\ inp = "q"
    /\ files[default_filename.story] = NoFile

\* C9 as claimed: play(filename) skips SETUP, and the first action resolved
\* after resuming is logged with turn sequence (stored turn + 1).
C9_FirstActionIsStoredTurnPlusOne ==
    [][/\ (pc = "play" /\ filename' # NoName /\ status' = "running") =>
             (pc' = "choice" /\ UNCHANGED setup_vars)
       /\ (filename # NoName /\ nresolved = 0 /\ nresolved' = 1) =>
             ActionLog'[Len(ActionLog')].turn_sequence = memory["turn"].int + 1]_vars

\* C9, amended: play(filename) skips SETUP (no options requested, no SETUP
\* prompt, the store is the file's), the loop starts at stored turn + 1, and
\* the first action resolved after resuming is logged with turn sequence
\* (stored turn + k), k the number of loop iterations started since resuming:
\* every h, f, m or empty line typed before it adds one.
C9_FirstActionCountsIterations ==
    [][/\ (pc = "play" /\ filename' # NoName /\ status' = "running") =>
             /\ pc' = "choice"
             /\ UNCHANGED setup_vars
             /\ TheStore' = PickleLoad(files[filename'.story], TheStore)
             /\ turn' = memory'["turn"].int + 1
             /\ iterations' = 1
       /\ (filename # NoName /\ nresolved = 0 /\ nresolved' = 1) =>
             ActionLog'[Len(ActionLog')].turn_sequence = memory["turn"].int + iterations]_vars

\* A resumed process has resolved its first action in its second iteration.
C9_Witness ==
    /\ filename # NoName
    /\ nresolved = 1
    /\ iterations = 3
    /\ ActionLog[Len(ActionLog)].turn_sequence = 2

\* C10: every key of entries has a record in history, in every state of the
\* game: after __init__, through SETUP and the loop, and after a load.
C10_EveryKeyHasARecord ==
    \A key \in DOMAIN memory : \E i \in 1..Len(history) : history[i].key = key

\* A resumed process holds the keys of SETUP and of a processed consequence.
C10_Witness ==
    /\ filename # NoName
    /\ status = "running"
    /\ pc = "choice"
    /\ {"story_memory", "character", "actions", "turn", "plot"} \subseteq DOMAIN memory

\* C11: at the turn prompt, with three choices offered, "1", "2" or "3" makes
\* the text of the choice of that number, as offered in this iteration, the
\* action that is resolved; "4" resolves nothing yet and makes the line typed
\* next, at the custom action prompt, the action that is resolved.
C11_PickedChoiceIsResolved ==
    [][/\ \A k \in 1..3 :
             (ReadsLine /\ pc = "choice" /\ inp' = <<"1", "2", "3">>[k]) =>
                 /\ Len(choices) = 3
                 /\ chosen_action' = choices[k].choice
                 /\ nresolved' = nresolved + 1
                 /\ ActionLog'[Len(ActionLog')].choice = choices[k].choice
       /\ (ReadsLine /\ pc = "choice" /\ inp' = "4") =>
             (pc' = "custom" /\ UNCHANGED <<chosen_action, nresolved, data_vars>>)
       /\ (ReadsLine /\ pc = "custom" /\ ~Quits(inp')) =>
             /\ chosen_action' = inp'
             /\ nresolved' = nresolved + 1
             /\ ActionLog'[Len(ActionLog')].choice = inp']_vars

\* The second choice of the first turn was resolved, then a custom action.
C11_Witness ==
    /\ nresolved = 2
    /\ Len(ActionLog) = 2
    /\ ActionLog[1].choice = GenerateChoices(1)[2].choice
    /\ ActionLog[1].turn_sequence = 1
    /\ chosen_action = "jump"
    /\ inp = "jump"

\* C12: the number given to a new game's save file is 1 when the directory
\* holds no story_<n>.gsg, and otherwise one more than the largest number in
\* use: above every file there, with the number just below it in use, so a
\* gap is never filled (story_1 and story_3 give story_4).
C12_NextNumberIsMaxPlusOne ==
    [][(default_filename' # default_filename /\ filename' = NoName) =>
         LET n == default_filename'.story
             used == {f \in DOMAIN files : files[f] # NoFile}
         IN  /\ n \in Nat \ {0}
             /\ used = {} => n = 1
             /\ \A f \in used : f < n
             /\ n > 1 => (n - 1) \in used
             /\ (used = {1, 3}) => n = 4]_vars

\* story_1.gsg and story_3.gsg are there, story_2.gsg is not, and the new
\* game was named story_4.gsg.
C12_Witness ==
    /\ files[1] # NoFile
    /\ files[2] = NoFile
    /\ files[3] # NoFile
    /\ \A f \in DOMAIN files : f > 3 => files[f] = NoFile
    /\ default_filename = StoryFile(4)

\* C13: a line typed at the turn prompt that is no command (not empty, not
\* 1, 2, 3, 4, h, f, m or q) is answered as a question: the process goes on
\* running and waits at the question prompt, the list stored under
\* "user_questions" holds one more entry, the question with its answer, and
\* the store has been saved to the active file.
C13_QuestionIsAnsweredAndLogged ==
    [][(ReadsLine /\ pc = "choice" /\ ~Quits(inp') /\ inp' \notin Commands) =>
         /\ status' = "running"
         /\ pc' = "question"
         /\ "user_questions" \in DOMAIN memory'
         /\ IsRef(memory'["user_questions"])
         /\ LET asked == heap'[memory'["user_questions"].ref]
            IN  /\ Len(asked) >= 1
                /\ asked[Len(asked)] =
                       [question |-> inp', answer |-> HandlePlayerQuestion(inp')]
         /\ files'[default_filename.story] = PickleDump(TheStore', heap')]_vars

\* C14: "f", "m" and the empty line, typed at the turn prompt, stay in the
\* same turn: the game is back at the turn prompt with the turn number it
\* had, so the action resolved next is logged under the number it would have
\* had without that line.
C14_ViewingKeepsTheTurn ==
    [][(ReadsLine /\ pc = "choice" /\ inp' \in {"f", "m", ""}) =>
         /\ status' = "running"
         /\ pc' = "choice"
         /\ turn' = turn]_vars

\* C15: resolving a consequence is one step that reads no line after the
\* one that chose the action.  It appends one entry to the end of the list
\* under "actions" (the loop's turn, the choice and the consequence of the
\* collaborator's record), overwrites "prose" and "plot" with that record's,
\* and saves the store to the active file.  History gains exactly three
\* records, for "actions", "prose" and "plot" in that order, version rises
\* by exactly 3, and every other key keeps its value.
C15_ConsequenceIsThreeUpdatesAndASave ==
    [][nresolved' = nresolved + 1 =>
         /\ lines' = lines + 1
         /\ \E c \in SimulateConsequence(chosen_action', Len(ActionLog)) :
                /\ heap'[memory'["actions"].ref] =
                       Append(ActionLog, [turn_sequence |-> turn, choice |-> c.choice,
                                          consequence |-> c.consequence])
                /\ memory'["prose"] = StrV(c.prose)
                /\ memory'["plot"] = StrV(c.plot)
         /\ memory'["actions"] = memory["actions"]
         /\ DOMAIN memory' = DOMAIN memory \cup {"prose", "plot"}
         /\ \A k \in DOMAIN memory \ {"actions", "prose", "plot"} :
                Deref(memory'[k], heap') = Deref(memory[k], heap)
         /\ Len(history') = Len(history) + 3
         /\ SubSeq(history', 1, Len(history)) = history
         /\ [i \in 1..3 |-> history'[Len(history) + i].key] = <<"actions", "prose", "plot">>
         /\ [i \in 1..3 |-> history'[Len(history) + i].version] =
                <<version + 1, version + 2, version + 3>>
         /\ \A i \in 1..3 :
                history'[Len(history) + i].value = memory'[history'[Len(history) + i].key]
         /\ version' = version + 3
         /\ files'[default_filename.story] = PickleDump(TheStore', heap')
         /\ \A f \in DOMAIN files : f # default_filename.story => files'[f] = files[f]]_vars

\* Two consequences resolved in one game: the log holds both, "plot" holds
\* the second one's, and the version is that of SETUP plus six.
C15_Witness ==
    /\ nresolved = 2
    /\ pc = "choice"
    /\ Len(ActionLog) = 2
    /\ ActionLog[2].consequence = "it fails"
    /\ memory["plot"] = StrV("plot: stuck")
    /\ memory["prose"] = StrV("prose: they stayed")
    /\ version = 15
    /\ files[default_filename.story] = PickleDump(TheStore, heap)

\* C16: whenever the game waits for a line inside the turn loop (at the turn
\* prompt, after "h", at the custom action prompt, at the question prompt)
\* and the active save file exists, the file holds the entries, the history
\* and the version of the store in memory.
C16_SaveFileMatchesStoreAtPrompts ==
    (/\ status = "running"
     /\ pc \in {"choice", "help", "custom", "question"}
     /\ files[default_filename.story] # NoFile) =>
        ValuesOf(files[default_filename.story], files[default_filename.story].objs)
            = ValuesOf(TheStore, heap)

\* The game waits at the custom action prompt after it resolved and saved
\* an action.
C16_Witness ==
    /\ status = "running"
    /\ pc = "custom"
    /\ nresolved >= 1
    /\ files[default_filename.story] # NoFile
    /\ files[default_filename.story].version = version
    /\ version > 9

\* C17: after "h" at the turn prompt the game reads exactly one more line
\* and drops it, whatever it is: "h" itself changes nothing but the prompt
\* the game waits at, and the line that follows resolves no action, answers
\* no question, changes neither the store nor the files, and brings the game
\* back to the turn prompt with the turn raised by one, so that the action
\* resolved next is numbered one higher for each "h".
C17_HelpDropsOneLineAndCountsATurn ==
    [][/\ (ReadsLine /\ pc = "choice" /\ inp' = "h") =>
             /\ pc' = "help"
             /\ status' = "running"
             /\ UNCHANGED <<data_vars, turn, iterations, nresolved, chosen_action>>
       /\ (ReadsLine /\ pc = "help") =>
             /\ pc' = "choice"
             /\ status' = "running"
             /\ turn' = turn + 1
             /\ iterations' = iterations + 1
             /\ UNCHANGED <<data_vars, nresolved, chosen_action>>]_vars

\* "h" then "q" were typed at the first turn prompt of a game: it runs on,
\* at the turn prompt, in turn 2, and the action resolved next is numbered 2.
C17_Witness ==
    /\ status = "running"
    /\ pc = "choice"
    /\ inp = "q"
    /\ iterations = 2
    /\ nresolved = 0
    /\ turn = memory["turn"].int + 2

\* A constructed game that has made no SETUP write and no load yet: before
\* play() has read a line, or at the first SETUP prompt.
BeforeSetup ==
    /\ status = "running"
    /\ \/ pc = "play"
       \/ pc = "choose_option" /\ option_type = "character"

\* C18 as stated: after the game object is constructed and before the first
\* SETUP write or the load, the store is empty: no entries, no history
\* record, version 0.
C18_StoreEmptyAtGameStart ==
    BeforeSetup =>
        /\ DOMAIN memory = {}
        /\ Len(history) = 0
        /\ version = 0

\* C18, amended: the MemoryManager is created empty, and the constructor of
\* the game makes one write on it, of the key "story_memory"; after the game
\* object is constructed and before the first SETUP write or the load, the
\* entries hold that key only, history holds its one record and version is 1.
C18_StoreHoldsStoryMemoryAtGameStart ==
    /\ DOMAIN NewStore.memory = {}
    /\ Len(NewStore.history) = 0
    /\ NewStore.version = 0
    /\ BeforeSetup =>
           /\ DOMAIN memory = {"story_memory"}
           /\ memory["story_memory"] = StoryMemory
           /\ Len(history) = 1
           /\ history[1].key = "story_memory"
           /\ history[1].version = 1
           /\ history[1].value = StoryMemory
           /\ version = 1

\* A second process has been started, after one that saved a game, and has
\* not loaded or asked anything yet.
C18_Witness ==
    /\ BeforeSetup
    /\ pc = "play"
    /\ runs = 2
    /\ \E f \in DOMAIN files : files[f] # NoFile /\ files[f].version > version

\* C19: a fresh SETUP makes exactly the writes character, setting,
\* motivation, actions = [] and turn = 0: each chosen option is written once
\* under its own name, so a line that chooses an option adds one record to
\* history (the last one two more, for "actions" and "turn"), and a completed
\* SETUP has appended exactly five records, one per key, in that order.
C19_SetupWritesFiveRecords ==
    [][(ReadsLine /\ pc = "choose_option" /\ status' = "running") =>
         /\ Len(history') = Len(history) + (IF option_type = "motivation" THEN 3 ELSE 1)
         /\ history'[Len(history) + 1].key = option_type
         /\ pc' = "choice" =>
                [i \in 1..(Len(history') - 1) |-> history'[i + 1].key]
                    = <<"character", "setting", "motivation", "actions", "turn">>]_vars

\* C20: SETUP asks for the character, then the setting, then the motivation,
\* and in no other order.  The candidates for the character are requested
\* with the empty context, before any option is stored; those for the
\* setting with the store as it is once the chosen character is written;
\* those for the motivation with the store as it is once character and
\* setting are both written.
C20_SetupOrderAndContexts ==
    /\ [](status = "running" /\ pc = "choose_option" =>
            /\ options = GenerateInitialOptions(context, option_type)
            /\ option_type = "character" =>
                   /\ context = StrOf("")
                   /\ DOMAIN memory \cap {"character", "setting", "motivation"} = {}
            /\ option_type = "setting" =>
                   /\ context = StrOf(memory)
                   /\ DOMAIN memory \cap {"character", "setting", "motivation"} = {"character"}
            /\ option_type = "motivation" =>
                   /\ context = StrOf(memory)
                   /\ DOMAIN memory \cap {"character", "setting", "motivation"} = {"character", "setting"})
    /\ [][/\ (pc = "play" /\ pc' = "choose_option") => option_type' = "character"
          /\ (ReadsLine /\ pc = "choose_option" /\ pc' = "choose_option"
                  /\ status' = "running") =>
                <<option_type, option_type'>> \in
                    {<<"character", "setting">>, <<"setting", "motivation">>}
          /\ (ReadsLine /\ pc = "choose_option" /\ pc' = "choice") =>
                /\ option_type = "motivation"
                /\ {"character", "setting", "motivation"} \subseteq DOMAIN memory']_vars

\* The game waits at the motivation prompt, with candidates requested from
\* the store that holds the chosen character and setting.
C20_Witness ==
    /\ status = "running"
    /\ pc = "choose_option"
    /\ option_type = "motivation"
    /\ context = StrOf(memory)
    /\ memory["character"].choice = OptionTexts.character[1]
    /\ memory["setting"].choice_type = "setting"
    /\ version = 5

(***************************************************************************)
(* Loading (SpecDir) and the stored turn (Spec)                            *)
(***************************************************************************)
\* C21: a load is all or nothing.  When load_story_memory ends, by
\* returning or by raising (no such file, or a pickle that lacks "memory",
\* "history" or "version"), entries, history and version are all three the
\* file's or all three what the game had before the load, never some of
\* each.
C21_LoadIsAllOrNothing ==
    [][(filename' # NoName /\ UNCHANGED files) =>
         LET blob == files[filename'.story]
         IN  \/ TheStore' = GameInit(now)
             \/ /\ blob # NoFile
                /\ {"memory", "history", "version"} \subseteq DOMAIN blob
                /\ memory' = blob.memory
                /\ history' = blob.history
                /\ version' = blob.version]_vars

\* C22: "h" with the line read after it, "f", "m" and the empty line, typed
\* at the turn prompt, leave entries, history, version and the save files as
\* they are, resolve nothing and change nothing of the game but the loop:
\* the line that ends the iteration ("f", "m", the empty line, the line after
\* "h") starts the next one, with its one request for new choices and the
\* turn counter moved on; "h" itself only moves the game to its prompt.
C22_ViewingChangesOnlyTheLoop ==
    [][/\ (ReadsLine /\ (pc = "help" \/ (pc = "choice" /\ inp' \in {"h", "f", "m", ""}))) =>
             /\ status' = "running"
             /\ UNCHANGED <<memory, history, version, heap, files>>
             /\ UNCHANGED <<chosen_action, nresolved, option_type, options, context,
                            default_filename, filename, runs>>
       /\ (ReadsLine /\ pc = "choice" /\ inp' = "h") =>
             /\ pc' = "help"
             /\ UNCHANGED <<turn, iterations, choices>>
       /\ (ReadsLine /\ (pc = "help" \/ (pc = "choice" /\ inp' \in {"f", "m", ""}))) =>
             /\ pc' = "choice"
             /\ iterations' = iterations + 1
             /\ turn' # turn
             /\ choices' = GenerateChoices(turn')]_vars

\* After an action was resolved and saved, "m" was typed: the game waits at
\* the turn prompt of its third iteration, the file still as it was saved.
C22_Witness ==
    /\ status = "running"
    /\ pc = "choice"
    /\ inp = "m"
    /\ nresolved = 1
    /\ iterations = 3
    /\ files[default_filename.story] = PickleDump(TheStore, heap)

\* C23: "turn" is written by SETUP and by nothing else.  Wherever a game is
\* in its turn loop, fresh or resumed, whatever it has resolved, the store
\* holds 0 under "turn" and history holds the one record of it, SETUP's; and
\* every save file holds 0 under "turn".  The turn number lives in the
\* loop's own counter only.
C23_StoredTurnStaysZero ==
    /\ pc \in {"choice", "help", "custom", "question"} =>
           /\ "turn" \in DOMAIN memory
           /\ memory["turn"] = IntV(0)
           /\ Cardinality({i \in 1..Len(history) : history[i].key = "turn"}) = 1
           /\ \A i \in 1..Len(history) :
                  history[i].key = "turn" => history[i].value = IntV(0)
           /\ turn >= 1
    /\ \A f \in DOMAIN files :
           files[f] # NoFile =>
               /\ "turn" \in DOMAIN files[f].memory
               /\ files[f].memory["turn"] = IntV(0)

\* A resumed game has resolved an action in its second iteration, on top of
\* the one its file held: two actions logged, the loop in turn 3, and 0
\* under "turn" in the store and in the file.
C23_Witness ==
    /\ status = "running"
    /\ pc = "choice"
    /\ filename # NoName
    /\ runs = 2
    /\ nresolved = 1
    /\ Len(ActionLog) = 2
    /\ turn = 3
    /\ memory["turn"] = IntV(0)
    /\ files[filename.story].memory["turn"] = IntV(0)
    /\ Len(files[filename.story].objs[files[filename.story].memory["actions"].ref]) = 2

====
